---- MODULE Spec2Model ----
(***************************************************************************)
(* Model of mcr-sync (src/src/index.ts): a daemon that reconciles the      *)
(* route table of mc-router with the routes derived from docker container  *)
(* labels and from the manual entries of config.yml.                       *)
(*                                                                         *)
(* Strings are sequences of one-character strings, so that concatenation   *)
(* (`${slug}.${suffix}`), String.includes('.'), split(','), trim() are     *)
(* computed as the code computes them.                                     *)
(***************************************************************************)
EXTENDS Naturals, Sequences, FiniteSets, TLC

(***************************************************************************)
(* State                                                                   *)
(***************************************************************************)
VARIABLES
    configFile,       \* what reading and parsing config.yml gives now
    containers,       \* what docker.listContainers() gives now
    router,           \* the router's table
    mainPc,           \* main(): "initial" (awaiting the first syncRoutes),
                      \* "serving" (watch and setInterval installed),
                      \* "rejected" (main's promise rejected, nothing installed),
                      \* "crashed" (unhandled rejection in a callback)
    lastKnownConfig,  \* the module variable of line 30
    watchEvents,      \* 'change' events of fs.watch not yet delivered
    cyc,              \* the syncRoutes invocations, one per slot
    period,           \* invocations started since the last moment none was
                      \* in progress (counted up to MaxCycles + 1)
    changesLeft,      \* changes of the inputs still to come
    failsLeft         \* failing calls still to come

vars == <<configFile, containers, router, mainPc, lastKnownConfig, watchEvents,
          cyc, period, changesLeft, failsLeft>>

(***************************************************************************)
(* Strings                                                                 *)
(***************************************************************************)
Digits == <<"0", "1", "2", "3", "4", "5", "6", "7", "8", "9">>

RECURSIVE NumStr(_)
\* template interpolation of a number: its decimal digits
NumStr(n) ==
    IF n < 10 THEN <<Digits[n + 1]>>
    ELSE NumStr(n \div 10) \o <<Digits[(n % 10) + 1]>>

\* String.prototype.includes for a one-character needle
Includes(s, ch) == \E i \in 1..Len(s) : s[i] = ch

\* `${slug}.${suffix}`
Join(slug, suffix) == slug \o <<".">> \o suffix

\* `${host}:${port}`
BackendStr(host, port) == host \o <<":">> \o NumStr(port)

RECURSIVE Split(_, _)
\* String.prototype.split on a one-character separator: always at least one
\* token, empty tokens kept
Split(s, sep) ==
    IF ~Includes(s, sep) THEN <<s>>
    ELSE LET k == CHOOSE i \in 1..Len(s) :
                      /\ s[i] = sep
                      /\ \A j \in 1..(i - 1) : s[j] # sep
         IN  <<SubSeq(s, 1, k - 1)>> \o Split(SubSeq(s, k + 1, Len(s)), sep)

RECURSIVE Trim(_)
\* String.prototype.trim (the only white space of the model is " ")
Trim(s) ==
    IF s = <<>> THEN s
    ELSE IF Head(s) = " " THEN Trim(Tail(s))
    ELSE IF s[Len(s)] = " " THEN Trim(SubSeq(s, 1, Len(s) - 1))
    ELSE s

\* a filter that keeps every token
KeepAll(ts) == ts

RECURSIVE DropEmpty(_)
\* Array.prototype.filter(Boolean) on strings: the empty string is falsy
DropEmpty(ts) ==
    IF ts = <<>> THEN <<>>
    ELSE IF Head(ts) = <<>> THEN DropEmpty(Tail(ts))
    ELSE <<Head(ts)>> \o DropEmpty(Tail(ts))

\* slugsLabel.split(',').map(s => s.trim()).filter(Boolean)
\* (each intermediate array is bound once)
ParseSlugs(label) ==
    CHOOSE slugs \in
        {DropEmpty(trimmed) :
            trimmed \in {[i \in 1..Len(toks) |-> Trim(toks[i])] :
                            toks \in {Split(label, ",")}}} : TRUE

(***************************************************************************)
(* Map<string,string>: a sequence of <<key, value>> pairs with distinct    *)
(* keys, in insertion order (the order Map.entries() iterates in).         *)
(***************************************************************************)
MapHas(m, k) == \E i \in 1..Len(m) : m[i][1] = k

MapKeys(m) == {m[i][1] : i \in 1..Len(m)}

\* Map.prototype.set: a present key keeps its position and gets the new value
\* (the map, key and value are bound once, as the call evaluates them once)
MapSet(m, k, v) ==
    CHOOSE result \in
        {IF MapHas(map, key)
         THEN [i \in 1..Len(map) |-> IF map[i][1] = key THEN <<key, val>> ELSE map[i]]
         ELSE Append(map, <<key, val>>) : map \in {m}, key \in {k}, val \in {v}} : TRUE

\* the value of a present key
MapVal(m, k) == m[CHOOSE i \in 1..Len(m) : m[i][1] = k][2]

\* a Map read as a table: a function from its keys to their values
MapFun(m) == [k \in MapKeys(m) |-> MapVal(m, k)]

(***************************************************************************)
(* Configuration (src/src/index.ts:6-11)                                   *)
(***************************************************************************)
\* process.env.DOCKER_HOST_IP || '127.0.0.1'
DOCKER_HOST_IP == <<"1", "2", "7", ".", "0", ".", "0", ".", "1">>

(***************************************************************************)
(* What readFile + js-yaml load give for config.yml.  kind is              *)
(*   "unreadable": readFile or load throws (missing, unreadable, malformed)*)
(*   "empty":      load returns undefined (an empty document)              *)
(*   "object":     load returns an object; has_default / has_manual say    *)
(*                 whether it has default_domain_suffix / manual.          *)
(* manual is the sequence of its entries in Object.entries order; an entry *)
(* is [slug, host, port, has_override, override_suffix].                   *)
(***************************************************************************)
NoConfig ==
    [kind |-> "empty", has_default |-> FALSE, default_domain_suffix |-> <<>>,
     has_manual |-> FALSE, manual |-> <<>>]

Unreadable == [NoConfig EXCEPT !.kind = "unreadable"]

ConfigObject(suffixes, manual) ==
    [kind |-> "object", has_default |-> TRUE, default_domain_suffix |-> suffixes,
     has_manual |-> TRUE, manual |-> manual]

ManualEntry(slug, host, port) ==
    [slug |-> slug, host |-> host, port |-> port,
     has_override |-> FALSE, override_suffix |-> <<>>]

ManualOverride(slug, host, port, suffixes) ==
    [slug |-> slug, host |-> host, port |-> port,
     has_override |-> TRUE, override_suffix |-> suffixes]

\* a load that falls back on the cached configuration
loadConfigCached(file) ==
    IF file.kind = "unreadable" THEN lastKnownConfig ELSE file

\* loadConfig: the parsed configuration, or null (NoConfig) when readFile or
\* load throws
loadConfig(file) == IF file.kind = "unreadable" THEN NoConfig ELSE file

\* !config
IsNull(config) == config.kind # "object"

(***************************************************************************)
(* getDockerRoutes.  A container is [label, ports]: label is the value of  *)
(* Labels['router.slug'] (<<>> when the label is absent or empty, both     *)
(* falsy), ports the PublicPort of each entry of Ports (0 when the entry   *)
(* has none).                                                              *)
(***************************************************************************)
Container(label, ports) == [label |-> label, ports |-> ports]

RECURSIVE SetAll(_, _, _)
\* for (const slug of slugs) routes.set(slug, backend)
SetAll(routes, slugs, backend) ==
    IF slugs = <<>> THEN routes
    ELSE SetAll(MapSet(routes, Head(slugs), backend), Tail(slugs), backend)

\* portData?.PublicPort is truthy
HasPublicPort(c) == Len(c.ports) > 0 /\ c.ports[1] # 0

\* const slugs = ...; const backend = `${DOCKER_HOST_IP}:${portData.PublicPort}`
SetSlugs(routes, c) ==
    CHOOSE result \in
        {SetAll(routes, slugs, backend) :
            slugs \in {ParseSlugs(c.label)},
            backend \in {BackendStr(DOCKER_HOST_IP, c.ports[1])}} : TRUE

RECURSIVE ScanContainers(_, _)
\* for (const container of containers)
ScanContainers(routes, cs) ==
    IF cs = <<>> THEN routes
    ELSE LET c == Head(cs)
         IN  ScanContainers(
                 IF c.label # <<>> /\ HasPublicPort(c)
                 THEN SetSlugs(routes, c)
                 ELSE routes,
                 Tail(cs))

\* a scan that answers with the containers it knew when the listing fails
getDockerRoutesKnown(listOk, cs) == ScanContainers(<<>>, cs)

\* listOk = FALSE: docker.listContainers() throws, routes stays empty
getDockerRoutes(listOk, cs) == IF listOk THEN ScanContainers(<<>>, cs) ELSE <<>>

\* the containers getDockerRoutes warns about: a slug label but no mapped port
Anomalies(cs) ==
    {i \in 1..Len(cs) : cs[i].label # <<>> /\ ~HasPublicPort(cs[i])}

(***************************************************************************)
(* syncRoutes, lines 160-178: the desired routes                           *)
(***************************************************************************)
RECURSIVE SetSuffixesDotRule(_, _, _, _)
\* a Docker loop that leaves the slug bare for a suffix with a dot
SetSuffixesDotRule(desired, slug, backend, suffixes) ==
    IF suffixes = <<>> THEN desired
    ELSE SetSuffixesDotRule(
             MapSet(desired,
                    IF Includes(Head(suffixes), ".") THEN slug
                    ELSE Join(slug, Head(suffixes)),
                    backend),
             slug, backend, Tail(suffixes))

RECURSIVE SetSuffixes(_, _, _, _)
\* for (const suffix of config.default_domain_suffix)
\*     desiredRoutes.set(`${slug}.${suffix}`, backend)
SetSuffixes(desired, slug, backend, suffixes) ==
    IF suffixes = <<>> THEN desired
    ELSE SetSuffixes(MapSet(desired, Join(slug, Head(suffixes)), backend),
                     slug, backend, Tail(suffixes))

RECURSIVE ProcessDocker(_, _, _)
\* 1. Process Docker containers
ProcessDocker(desired, dockerRoutes, suffixes) ==
    IF dockerRoutes = <<>> THEN desired
    ELSE ProcessDocker(
             SetSuffixes(desired, Head(dockerRoutes)[1], Head(dockerRoutes)[2], suffixes),
             Tail(dockerRoutes), suffixes)

\* suffix.includes('.') ? slug : `${slug}.${suffix}`
FullAddress(slug, suffix) ==
    IF Includes(suffix, ".") THEN slug ELSE Join(slug, suffix)

\* manualConfig.override_suffix || config.default_domain_suffix
\* (an array is truthy, also an empty one)
ManualSuffixes(entry, config) ==
    IF entry.has_override THEN entry.override_suffix
    ELSE config.default_domain_suffix

\* the address form decided once for the entry, not per suffix
SetManualPerEntry(desired, slug, backend, suffixes) ==
    IF suffixes = <<>> THEN desired
    ELSE IF \E k \in 1..Len(suffixes) : Includes(suffixes[k], ".")
    THEN MapSet(desired, slug, backend)
    ELSE SetSuffixes(desired, slug, backend, suffixes)

RECURSIVE SetManual(_, _, _, _)
SetManual(desired, slug, backend, suffixes) ==
    IF suffixes = <<>> THEN desired
    ELSE SetManual(MapSet(desired, FullAddress(slug, Head(suffixes)), backend),
                   slug, backend, Tail(suffixes))

RECURSIVE ProcessManual(_, _, _)
\* 2. Process manual entries
ProcessManual(desired, manual, config) ==
    IF manual = <<>> THEN desired
    ELSE LET e == Head(manual)
         IN  ProcessManual(
                 SetManual(desired, e.slug, BackendStr(e.host, e.port),
                           ManualSuffixes(e, config)),
                 Tail(manual), config)

\* the two steps in the other order
DesiredRoutesDockerLast(config, dockerRoutes) ==
    ProcessDocker(ProcessManual(<<>>, config.manual, config),
                  dockerRoutes, config.default_domain_suffix)

\* the desiredRoutes Map of a cycle
DesiredRoutes(config, dockerRoutes) ==
    ProcessManual(ProcessDocker(<<>>, dockerRoutes, config.default_domain_suffix),
                  config.manual, config)

\* the build throws a TypeError: `for (... of undefined)` when a list of
\* suffixes is needed and default_domain_suffix is missing, or
\* Object.entries(undefined) when manual is missing
BuildThrows(config, dockerRoutes) ==
    \/ dockerRoutes # <<>> /\ ~config.has_default
    \/ ~config.has_manual
    \/ \E i \in 1..Len(config.manual) :
           ~config.manual[i].has_override /\ ~config.has_default

(***************************************************************************)
(* The router's table and the effect of the three calls on it.  A table is *)
(* a function from the route names it holds to their backends.             *)
(***************************************************************************)
EmptyTable == <<>>

\* characters encodeURIComponent leaves alone in the alphabet of the model
Unreserved == {"a", "b", "h", "m", "o", "t", ".", "-"} \cup {Digits[i] : i \in 1..10}

RECURSIVE encodeURIComponent(_)
\* every other character becomes an escape, written <<"%", c>>
encodeURIComponent(s) ==
    IF s = <<>> THEN <<>>
    ELSE (IF Head(s) \in Unreserved THEN <<Head(s)>> ELSE <<"%", Head(s)>>)
         \o encodeURIComponent(Tail(s))

RECURSIVE PathDecode(_)
\* the router's decoding of a path segment
PathDecode(s) ==
    IF s = <<>> THEN <<>>
    ELSE IF Head(s) = "%" /\ Len(s) > 1 THEN <<s[2]>> \o PathDecode(Tail(Tail(s)))
    ELSE <<Head(s)>> \o PathDecode(Tail(s))

\* POST /routes {serverAddress, backend}, answered 2xx
PostRoute(table, serverAddress, backend) ==
    [n \in (DOMAIN table) \cup {serverAddress} |->
        IF n = serverAddress THEN backend ELSE table[n]]

\* DELETE /routes/<encodeURIComponent(serverAddress)>, answered 2xx
DeleteRouteAt(table, path) ==
    [n \in (DOMAIN table) \ {PathDecode(path)} |-> table[n]]

\* the effect of addOrUpdateRoute on the router: none when the call fails
addOrUpdateRoute(table, serverAddress, backend, ok) ==
    IF ok THEN PostRoute(table, serverAddress, backend) ELSE table

\* the effect of deleteRoute on the router: none when the call fails
deleteRoute(table, serverAddress, ok) ==
    IF ok THEN DeleteRouteAt(table, encodeURIComponent(serverAddress)) ELSE table

\* a fetch that answers "no routes" when it fails
getMcRouterRoutesEmptyOnError(table, ok) ==
    [null |-> FALSE, routes |-> IF ok THEN table ELSE EmptyTable]

\* getMcRouterRoutes: the router's routes, or null when the status is not 2xx
\* or the connection fails
getMcRouterRoutes(table, ok) ==
    IF ok THEN [null |-> FALSE, routes |-> table]
    ELSE [null |-> TRUE, routes |-> EmptyTable]

(***************************************************************************)
(* syncRoutes, lines 187-204: the diff against the fetched table           *)
(***************************************************************************)
\* a comparison that only looks for missing addresses
NeedsUpdateIfMissing(current, address, backend) == address \notin DOMAIN current

\* a comparison that always differs
NeedsUpdateAlways(current, address, backend) == TRUE

\* currentMappings.get(address) !== backend
NeedsUpdate(current, address, backend) ==
    ~(address \in DOMAIN current /\ current[address] = backend)

\* the positions of desiredRoutes, from position `from` on, that get a call
PendingAdds(desired, current, from) ==
    {j \in from..Len(desired) : NeedsUpdate(current, desired[j][1], desired[j][2])}

\* a delete loop that also drops the addresses whose backend changed
ToDeleteChanged(desired, current) ==
    {a \in DOMAIN current : ~MapHas(desired, a) \/ current[a] # MapVal(desired, a)}

\* !desiredRoutes.has(address), for the addresses of currentMappings
ToDelete(desired, current) == {a \in DOMAIN current : ~MapHas(desired, a)}

\* lines 187-204 run without interruption and with every call answered 2xx:
\* the table they leave
Reconcile(table, desired) ==
    LET adds == PendingAdds(desired, table, 1)
        added == [n \in (DOMAIN table) \cup {desired[j][1] : j \in adds} |->
                     IF \E j \in adds : desired[j][1] = n
                     THEN MapVal(desired, n) ELSE table[n]]
    IN  [n \in (DOMAIN added) \ ToDelete(desired, table) |-> added[n]]

\* a flag raised only by a call that was answered 2xx
MarkChangedIfOk(changesMade, ok) == changesMade \/ ok

\* changesMade = true, after the await of line 193 or 201 whatever it logged
MarkChanged(changesMade, ok) == TRUE

\* the final log line of a cycle that ran to its end
FinalStatus(changesMade) == IF changesMade THEN "changes" ELSE "nochanges"

(***************************************************************************)
(* Bounds and the inputs the checks enumerate                              *)
(***************************************************************************)
\* syncRoutes invocations that can be in progress at once
MaxCycles == 2
\* changes of config.yml or of the running containers in one run
MaxChanges == 1
\* failing calls (docker, GET, POST, DELETE) in one run
MaxFails == 1

Slots == 1..MaxCycles

SlugA == <<"a">>
SlugB == <<"b">>
SufM == <<"m">>
SufMT == <<"m", ".", "t">>
HostH == <<"h">>

CfgA == ConfigObject(<<SufM>>, <<ManualEntry(SlugA, HostH, 1)>>)
CfgB == ConfigObject(<<SufM>>, <<ManualOverride(SlugB, HostH, 2, <<SufMT>>)>>)
CfgNoManual == [ConfigObject(<<SufM>>, <<>>) EXCEPT !.has_manual = FALSE]

ConfigFiles == {CfgA, CfgB, CfgNoManual, Unreadable}

ContainerSets == {<<>>, <<Container(<<"a", ",", "b">>, <<2>>)>>}

InitialTables ==
    {EmptyTable,
     [n \in {Join(SlugA, SufM), <<"o">>} |->
         IF n = <<"o">> THEN BackendStr(HostH, 9) ELSE BackendStr(HostH, 1)]}

\* failing calls in one run of a single cycle
MaxSoloFails == 2

\* the inputs of the single-cycle specification
SlugAM == <<"a", ".", "m">>

SoloSuffixLists == {<<SufM>>, <<SufMT>>, <<SufM, SufMT>>, <<SufMT, SufM>>}

SoloEntries(slug, port) ==
    {ManualEntry(slug, HostH, port)}
        \cup {ManualOverride(slug, HostH, port, l) : l \in SoloSuffixLists \cup {<<>>}}

SoloManuals ==
    {<<>>}
        \cup {<<e>> : e \in SoloEntries(SlugA, 1) \cup SoloEntries(SlugAM, 3)}
        \cup {<<e1, e2>> : e1 \in SoloEntries(SlugA, 1), e2 \in SoloEntries(SlugAM, 3)}
        \cup {<<e2, e1>> : e1 \in SoloEntries(SlugA, 1), e2 \in SoloEntries(SlugAM, 3)}

SoloConfigFiles ==
    {ConfigObject(l, m) : l \in SoloSuffixLists \cup {<<>>}, m \in SoloManuals}
        \cup {Unreadable, NoConfig, CfgNoManual}
        \cup {[ConfigObject(<<>>, m) EXCEPT !.has_default = FALSE] :
                 m \in {<<>>, <<ManualEntry(SlugA, HostH, 1)>>,
                        <<ManualOverride(SlugA, HostH, 1, <<SufM>>)>>}}

SoloContainerSets ==
    {<<>>,
     <<Container(<<"a">>, <<2>>)>>,
     <<Container(<<" ", "a", " ", ",", ",", "b">>, <<2, 3>>)>>,
     <<Container(<<"a">>, <<>>)>>,
     <<Container(<<"a">>, <<0, 2>>)>>,
     <<Container(<<>>, <<2>>), Container(<<"a">>, <<2>>), Container(<<"a">>, <<3>>)>>}

SoloTables == InitialTables

\* an invocation of syncRoutes suspended at its first await.  calls is the
\* log of its router calls; listOk says that docker.listContainers() did not
\* throw in it; inPeriod says that it started in the current period; alone
\* (set when it ends) that no other invocation was in progress during it;
\* endTable is the router's table when it ended.
Fresh(trigger) ==
    [pc |-> "loadConfig", trigger |-> trigger, config |-> NoConfig,
     listOk |-> TRUE, dockerRoutes |-> <<>>, desired |-> <<>>, current |-> EmptyTable,
     fetched |-> FALSE, pos |-> 1, todel |-> {}, changesMade |-> FALSE,
     calls |-> <<>>, status |-> "running", inPeriod |-> TRUE, alone |-> FALSE,
     endTable |-> EmptyTable]

Idle == [Fresh("none") EXCEPT !.pc = "idle", !.status = "none", !.inPeriod = FALSE]

Call(op, name, backend, ok) == [op |-> op, name |-> name, backend |-> backend, ok |-> ok]

Active(c) == cyc[c].pc \notin {"idle", "done"}

\* no invocation of syncRoutes is in progress
Quiescent == \A c \in Slots : ~Active(c)

\* the process is running
Alive == mainPc \in {"initial", "serving"}

\* the outcomes a call can have
Outcomes == IF failsLeft > 0 THEN {TRUE, FALSE} ELSE {TRUE}

Spend(ok) == IF ok THEN failsLeft ELSE failsLeft - 1

Min(S) == CHOOSE x \in S : \A y \in S : x <= y

\* syncRoutes returns or throws
Ended(r, status, table) ==
    [r EXCEPT !.pc = "done", !.status = status, !.endTable = table,
              !.alone = (period = 1)]

\* loops that stop at the first failed call
ResumeUnlessFailed(r, table) ==
    IF r.calls # <<>> /\ ~r.calls[Len(r.calls)].ok
    THEN Ended(r, FinalStatus(r.changesMade), table)
    ELSE IF PendingAdds(r.desired, r.current, r.pos) # {} THEN [r EXCEPT !.pc = "adds"]
    ELSE IF r.todel # {} THEN [r EXCEPT !.pc = "deletes"]
    ELSE Ended(r, FinalStatus(r.changesMade), table)

\* loops in the other order: the deletes first
ResumeDeletesFirst(r, table) ==
    IF r.todel # {} THEN [r EXCEPT !.pc = "deletes"]
    ELSE IF PendingAdds(r.desired, r.current, r.pos) # {} THEN [r EXCEPT !.pc = "adds"]
    ELSE Ended(r, FinalStatus(r.changesMade), table)

\* syncRoutes after an await of lines 181-204 returned: it runs to its next
\* call, or to its end
Resume(r, table) ==
    IF PendingAdds(r.desired, r.current, r.pos) # {} THEN [r EXCEPT !.pc = "adds"]
    ELSE IF r.todel # {} THEN [r EXCEPT !.pc = "deletes"]
    ELSE Ended(r, FinalStatus(r.changesMade), table)

\* main, lines 218-234: when the first syncRoutes returns, watch and
\* setInterval are installed; when it throws, main's promise rejects
MainAfter(r) ==
    IF r.pc = "done" /\ r.trigger = "startup"
    THEN (IF r.status = "threw" THEN "rejected" ELSE "serving")
    ELSE mainPc

Init ==
    /\ configFile \in ConfigFiles
    /\ containers \in ContainerSets
    /\ router \in InitialTables
    /\ mainPc = "initial"
    /\ lastKnownConfig = NoConfig
    /\ watchEvents = 0
    /\ cyc = [c \in Slots |-> IF c = 1 THEN Fresh("startup") ELSE Idle]
    /\ period = 1
    /\ changesLeft = MaxChanges
    /\ failsLeft = MaxFails

(***************************************************************************)
(* syncRoutes, one action per await                                        *)
(***************************************************************************)
\* lines 152-157: await loadConfig()
LoadConfig(c) ==
    /\ Alive
    /\ cyc[c].pc = "loadConfig"
    /\ \E config \in {loadConfig(configFile)} :
           IF IsNull(config)
           THEN \E r \in {Ended(cyc[c], "skipped_config", router)} :
                    /\ cyc' = [cyc EXCEPT ![c] = r]
                    /\ mainPc' = MainAfter(r)
                    /\ UNCHANGED lastKnownConfig
           ELSE /\ cyc' = [cyc EXCEPT ![c].pc = "discover", ![c].config = config]
                /\ lastKnownConfig' = config
                /\ UNCHANGED mainPc
    /\ UNCHANGED <<configFile, containers, router, watchEvents, period,
                   changesLeft, failsLeft>>

\* lines 159-178: await getDockerRoutes(), then the desired routes
Discover(c) ==
    /\ Alive
    /\ cyc[c].pc = "discover"
    /\ \E listOk \in Outcomes, config \in {cyc[c].config} :
        \E dr \in {getDockerRoutes(listOk, containers)} :
            /\ failsLeft' = Spend(listOk)
            /\ IF BuildThrows(config, dr)
               THEN /\ \E r \in {[cyc[c] EXCEPT !.dockerRoutes = dr, !.listOk = listOk]} :
                           cyc' = [cyc EXCEPT ![c] = Ended(r, "threw", router)]
                    /\ IF cyc[c].trigger = "startup"
                       THEN mainPc' = "rejected"
                       ELSE mainPc' \in {"serving", "crashed"}
               ELSE /\ \E desired \in {DesiredRoutes(config, dr)} :
                           cyc' = [cyc EXCEPT ![c].pc = "fetch",
                                              ![c].listOk = listOk,
                                              ![c].dockerRoutes = dr,
                                              ![c].desired = desired]
                    /\ UNCHANGED mainPc
    /\ UNCHANGED <<configFile, containers, router, lastKnownConfig, watchEvents,
                   period, changesLeft>>

\* lines 181-187: await getMcRouterRoutes()
Fetch(c) ==
    /\ Alive
    /\ cyc[c].pc = "fetch"
    /\ \E ok \in Outcomes :
        /\ failsLeft' = Spend(ok)
        /\ \E currentRoutes \in {getMcRouterRoutes(router, ok)},
              logged \in {[cyc[c] EXCEPT !.calls = Append(@, Call("GET", <<>>, <<>>, ok))]} :
               IF currentRoutes.null
               THEN \E r \in {Ended(logged, "skipped_fetch", router)} :
                        /\ cyc' = [cyc EXCEPT ![c] = r]
                        /\ mainPc' = MainAfter(r)
               ELSE \E fetched \in {[logged EXCEPT
                                        !.current = currentRoutes.routes,
                                        !.fetched = TRUE,
                                        !.todel = ToDelete(logged.desired,
                                                           currentRoutes.routes)]} :
                    \E r \in {Resume(fetched, router)} :
                        /\ cyc' = [cyc EXCEPT ![c] = r]
                        /\ mainPc' = MainAfter(r)
    /\ UNCHANGED <<configFile, containers, router, lastKnownConfig, watchEvents,
                   period, changesLeft>>

\* lines 191-196: the next await addOrUpdateRoute(address, backend)
AddRoute(c) ==
    /\ Alive
    /\ cyc[c].pc = "adds"
    /\ \E ok \in Outcomes,
          j \in {Min(PendingAdds(cyc[c].desired, cyc[c].current, cyc[c].pos))} :
        \E address \in {cyc[c].desired[j][1]}, backend \in {cyc[c].desired[j][2]} :
            /\ failsLeft' = Spend(ok)
            /\ router' = addOrUpdateRoute(router, address, backend, ok)
            /\ \E called \in {[cyc[c] EXCEPT
                                   !.pos = j + 1, !.changesMade = MarkChanged(@, ok),
                                   !.calls = Append(@, Call("POST", address, backend, ok))]} :
               \E r \in {Resume(called, router')} :
                   /\ cyc' = [cyc EXCEPT ![c] = r]
                   /\ mainPc' = MainAfter(r)
    /\ UNCHANGED <<configFile, containers, lastKnownConfig, watchEvents, period,
                   changesLeft>>

\* lines 199-204: the next await deleteRoute(address); the order of
\* currentMappings is the order of the keys in the router's answer, which
\* the program does not control
DeleteRoute(c) ==
    /\ Alive
    /\ cyc[c].pc = "deletes"
    /\ \E address \in cyc[c].todel, ok \in Outcomes :
        /\ failsLeft' = Spend(ok)
        /\ router' = deleteRoute(router, address, ok)
        /\ \E called \in {[cyc[c] EXCEPT
                               !.todel = @ \ {address}, !.changesMade = MarkChanged(@, ok),
                               !.calls = Append(@, Call("DELETE", address, <<>>, ok))]} :
           \E r \in {Resume(called, router')} :
               /\ cyc' = [cyc EXCEPT ![c] = r]
               /\ mainPc' = MainAfter(r)
    /\ UNCHANGED <<configFile, containers, lastKnownConfig, watchEvents, period,
                   changesLeft>>

(***************************************************************************)
(* main, lines 221-232: the triggers                                       *)
(***************************************************************************)
FreeSlots == {c \in Slots : ~Active(c)}

\* a callback calls syncRoutes: the invocation runs to its first await
Start(trigger) ==
    \E c \in FreeSlots :
        /\ cyc' = [d \in Slots |->
                      IF d = c THEN Fresh(trigger)
                      ELSE IF Quiescent THEN [cyc[d] EXCEPT !.inPeriod = FALSE]
                      ELSE cyc[d]]
        /\ period' = IF Quiescent THEN 1
                     ELSE IF period > MaxCycles THEN period ELSE period + 1

\* lines 229-232: the setInterval callback
TimerTick ==
    /\ mainPc = "serving"
    /\ Start("timer")
    /\ UNCHANGED <<configFile, containers, router, mainPc, lastKnownConfig,
                   watchEvents, changesLeft, failsLeft>>

\* lines 221-226: the fs.watch callback, for an event 'change'
WatchCallback ==
    /\ mainPc = "serving"
    /\ watchEvents > 0
    /\ Start("watch")
    /\ watchEvents' = watchEvents - 1
    /\ UNCHANGED <<configFile, containers, router, mainPc, lastKnownConfig,
                   changesLeft, failsLeft>>

(***************************************************************************)
(* The environment                                                         *)
(***************************************************************************)
\* config.yml is written: fs.watch, once installed, reports 'change' (a
\* write in place) or 'rename' (the file replaced), and the callback of
\* line 222 ignores 'rename'
ChangeConfig ==
    /\ changesLeft > 0
    /\ changesLeft' = changesLeft - 1
    /\ \E file \in ConfigFiles \ {configFile}, event \in {"change", "rename"} :
        /\ configFile' = file
        /\ watchEvents' = IF mainPc = "serving" /\ event = "change"
                          THEN watchEvents + 1 ELSE watchEvents
    /\ UNCHANGED <<containers, router, mainPc, lastKnownConfig, cyc, period, failsLeft>>

\* containers start or stop
ChangeContainers ==
    /\ changesLeft > 0
    /\ changesLeft' = changesLeft - 1
    /\ \E cs \in ContainerSets \ {containers} : containers' = cs
    /\ UNCHANGED <<configFile, router, mainPc, lastKnownConfig, watchEvents, cyc,
                   period, failsLeft>>

Next ==
    \/ \E c \in Slots : LoadConfig(c)
    \/ \E c \in Slots : Discover(c)
    \/ \E c \in Slots : Fetch(c)
    \/ \E c \in Slots : AddRoute(c)
    \/ \E c \in Slots : DeleteRoute(c)
    \/ TimerTick
    \/ WatchCallback
    \/ ChangeConfig
    \/ ChangeContainers

Spec == Init /\ [][Next]_vars

(***************************************************************************)
(* The same program when every await returns (no call hangs) and the       *)
(* interval timer, once installed, keeps firing                            *)
(***************************************************************************)
\* the next step of the invocation in slot c
Step(c) ==
    \/ LoadConfig(c)
    \/ Discover(c)
    \/ Fetch(c)
    \/ AddRoute(c)
    \/ DeleteRoute(c)

Fairness ==
    /\ \A c \in Slots : WF_vars(Step(c))
    /\ WF_vars(TimerTick)

\* the runs that start with a stale table and the configuration CfgA (the
\* inputs still change during the run)
InitLive ==
    /\ Init
    /\ configFile = CfgA
    /\ router # EmptyTable

LiveSpec == InitLive /\ [][Next]_vars /\ Fairness

(***************************************************************************)
(* The same program when a call of the invocation in slot 1 (the startup   *)
(* cycle, or a later one) may never return: every other await returns,    *)
(* the timer keeps firing and pending notifications are delivered          *)
(***************************************************************************)
HangFairness ==
    /\ \A c \in Slots \ {1} : WF_vars(Step(c))
    /\ WF_vars(TimerTick)
    /\ WF_vars(WatchCallback)

HangSpec == InitLive /\ [][Next]_vars /\ HangFairness

(***************************************************************************)
(* One cycle, the startup one, on every input of the Solo sets             *)
(***************************************************************************)
InitSolo ==
    /\ configFile \in SoloConfigFiles
    /\ containers \in SoloContainerSets
    /\ router \in SoloTables
    /\ mainPc = "initial"
    /\ lastKnownConfig = NoConfig
    /\ watchEvents = 0
    /\ cyc = [c \in Slots |-> IF c = 1 THEN Fresh("startup") ELSE Idle]
    /\ period = 1
    /\ changesLeft = 0
    /\ failsLeft = MaxSoloFails

NextSolo ==
    \/ \E c \in Slots : LoadConfig(c)
    \/ \E c \in Slots : Discover(c)
    \/ \E c \in Slots : Fetch(c)
    \/ \E c \in Slots : AddRoute(c)
    \/ \E c \in Slots : DeleteRoute(c)

SoloSpec == InitSolo /\ [][NextSolo]_vars

(***************************************************************************)
(* Properties                                                              *)
(***************************************************************************)
\* the invocation ran to its end (it was not skipped and did not throw)
Completed(r) == r.pc = "done" /\ r.status \in {"changes", "nochanges"}

Posts(r, n) == {i \in 1..Len(r.calls) : r.calls[i].op = "POST" /\ r.calls[i].name = n}

Deletes(r, n) == {i \in 1..Len(r.calls) : r.calls[i].op = "DELETE" /\ r.calls[i].name = n}

\* the add/update and delete calls of the invocation
Writes(r) == {i \in 1..Len(r.calls) : r.calls[i].op \in {"POST", "DELETE"}}

AllOk(r) == \A i \in 1..Len(r.calls) : r.calls[i].ok

\* the two invocations of a period of exactly two, once both have ended
PeriodOfTwo(c1, c2) ==
    /\ Quiescent
    /\ period = 2
    /\ c1 # c2
    /\ cyc[c1].inPeriod
    /\ cyc[c2].inPeriod

\* C1: a cycle that ran alone and fetched the table O issues exactly one
\* add/update (name, D[name]) for each name of the desired mapping D that O
\* lacks or maps to another backend, exactly one delete for each name of O
\* that D lacks, and no other call; when every call succeeded the router's
\* table is D afterwards.
C1_DiffCalls ==
    \A c \in Slots :
        LET r == cyc[c]
            D == MapFun(r.desired)
            O == r.current
        IN  (Completed(r) /\ r.alone) =>
              /\ \A n \in DOMAIN D :
                    /\ Cardinality(Posts(r, n)) =
                           (IF n \notin DOMAIN O \/ O[n] # D[n] THEN 1 ELSE 0)
                    /\ \A i \in Posts(r, n) : r.calls[i].backend = D[n]
              /\ \A n \in DOMAIN O :
                    Cardinality(Deletes(r, n)) = (IF n \notin DOMAIN D THEN 1 ELSE 0)
              /\ \A i \in Writes(r) :
                    \/ r.calls[i].op = "POST" /\ r.calls[i].name \in DOMAIN D
                    \/ r.calls[i].op = "DELETE" /\ r.calls[i].name \in DOMAIN O
              /\ (AllOk(r) => r.endTable = D)

\* a cycle that ran alone, added one name, deleted another and left a third
\* as it was, every call succeeding
C1_Witness ==
    \E c \in Slots :
        LET r == cyc[c]
        IN  /\ Completed(r) /\ r.alone /\ AllOk(r)
            /\ \E i, j \in Writes(r) : r.calls[i].op = "POST" /\ r.calls[j].op = "DELETE"
            /\ \E n \in DOMAIN r.current :
                   MapHas(r.desired, n) /\ MapVal(r.desired, n) = r.current[n]
            /\ \E n \in DOMAIN r.current :
                   MapHas(r.desired, n) /\ MapVal(r.desired, n) # r.current[n]

\* C2 (as stated): when two overlapping cycles have ended, every call
\* answered 2xx, the router's table is the one that running the two cycles
\* one after the other, in one order or the other, leaves.
C2_SerialEquivalent ==
    \A c1, c2 \in Slots :
        LET r1 == cyc[c1]
            r2 == cyc[c2]
        IN  (PeriodOfTwo(c1, c2) /\ Completed(r1) /\ Completed(r2)
                /\ AllOk(r1) /\ AllOk(r2)) =>
              router \in {Reconcile(Reconcile(r1.current, r1.desired), r2.desired),
                          Reconcile(Reconcile(r2.current, r2.desired), r1.desired)}

\* C3: when two overlapping cycles that computed the same desired mapping
\* have ended, every call answered 2xx, the router's table is the one a
\* single cycle leaves: the desired mapping.
C3_OverlapConverges ==
    \A c1, c2 \in Slots :
        LET r1 == cyc[c1]
            r2 == cyc[c2]
        IN  (PeriodOfTwo(c1, c2) /\ Completed(r1) /\ Completed(r2)
                /\ AllOk(r1) /\ AllOk(r2)
                /\ MapFun(r1.desired) = MapFun(r2.desired)) =>
              /\ router = MapFun(r1.desired)
              /\ router = Reconcile(r1.current, r1.desired)

\* two overlapping cycles with the same configuration and containers, each
\* of which issued calls of its own
C3_Witness ==
    \E c1, c2 \in Slots :
        LET r1 == cyc[c1]
            r2 == cyc[c2]
        IN  /\ PeriodOfTwo(c1, c2) /\ Completed(r1) /\ Completed(r2)
            /\ AllOk(r1) /\ AllOk(r2)
            /\ r1.config = r2.config /\ r1.dockerRoutes = r2.dockerRoutes
            /\ Cardinality(Writes(r1)) >= 2 /\ Cardinality(Writes(r2)) >= 2

\* C4: a cycle that fetches a table equal to its desired mapping issues no
\* add/update and no delete and reports that no changes were detected; so
\* does a cycle that computes the desired mapping of a cycle that ran alone
\* with every call succeeding and fetches the table that cycle left.
C4_Idempotent ==
    \A p, c \in Slots :
        LET first == cyc[p]
            second == cyc[c]
        IN  /\ (Completed(second) /\ second.current = MapFun(second.desired)) =>
                  (Writes(second) = {} /\ second.status = "nochanges")
            /\ (p # c /\ Completed(first) /\ first.alone /\ AllOk(first)
                  /\ Completed(second)
                  /\ MapFun(second.desired) = MapFun(first.desired)
                  /\ second.current = first.endTable) =>
                  (Writes(second) = {} /\ second.status = "nochanges")

\* a cycle that changed the table, followed by a cycle with the same desired
\* mapping that fetched the table the first one left
C4_Witness ==
    \E p, c \in Slots :
        LET first == cyc[p]
            second == cyc[c]
        IN  /\ p # c
            /\ Completed(first) /\ first.alone /\ AllOk(first)
            /\ first.status = "changes" /\ ~first.inPeriod
            /\ Completed(second) /\ second.inPeriod /\ second.alone
            /\ second.desired = first.desired /\ second.desired # <<>>
            /\ second.current = first.endTable
            /\ second.status = "nochanges"

\* C5: a cycle whose fetch of the router's table failed issues no add/update
\* and no delete, and ends skipped.
C5_FetchFailureSkips ==
    \A c \in Slots :
        LET r == cyc[c]
        IN  (\E i \in 1..Len(r.calls) : r.calls[i].op = "GET" /\ ~r.calls[i].ok) =>
              /\ Writes(r) = {}
              /\ r.pc = "done"
              /\ r.status = "skipped_fetch"
              /\ ~r.fetched

\* a skipped cycle whose desired mapping was not what the router held
C5_Witness ==
    \E c \in Slots :
        /\ cyc[c].status = "skipped_fetch"
        /\ cyc[c].desired # <<>>
        /\ router # MapFun(cyc[c].desired)
        /\ router # EmptyTable

\* C6: a cycle that finds config.yml missing, unreadable or malformed ends
\* skipped at once: it has issued no router call and built no desired
\* mapping, from this or an earlier configuration, and the router's table is
\* as it was.
C6_ConfigFailureSkips ==
    [][\A c \in Slots :
          (cyc[c].pc = "loadConfig" /\ cyc'[c] # cyc[c] /\ configFile.kind = "unreadable") =>
             /\ cyc'[c].pc = "done"
             /\ cyc'[c].status = "skipped_config"
             /\ cyc'[c].calls = <<>>
             /\ cyc'[c].desired = <<>>
             /\ cyc'[c].config = NoConfig
             /\ router' = router]_vars

\* a cycle skipped for its configuration after an earlier cycle had loaded one
C6_Witness ==
    \E c \in Slots :
        /\ cyc[c].status = "skipped_config"
        /\ configFile.kind = "unreadable"
        /\ lastKnownConfig # NoConfig
        /\ router # EmptyTable

\* C7: in a cycle that runs alone, whichever calls fail, every name that
\* needs an add/update or a delete gets its call, the cycle runs to its end,
\* and every name whose call succeeded has its desired value in the router's
\* table afterwards.
C7_CallsIndependent ==
    \A c \in Slots :
        LET r == cyc[c]
            D == MapFun(r.desired)
            O == r.current
        IN  (r.pc = "done" /\ r.fetched /\ r.alone) =>
              /\ Completed(r)
              /\ \A n \in DOMAIN D :
                    (n \notin DOMAIN O \/ O[n] # D[n]) => Posts(r, n) # {}
              /\ \A n \in (DOMAIN O) \ (DOMAIN D) : Deletes(r, n) # {}
              /\ \A i \in Writes(r) :
                    r.calls[i].ok =>
                       IF r.calls[i].op = "POST"
                       THEN /\ r.calls[i].name \in DOMAIN r.endTable
                            /\ r.endTable[r.calls[i].name] = D[r.calls[i].name]
                       ELSE r.calls[i].name \notin DOMAIN r.endTable

\* a cycle in which an add/update failed, a later add/update succeeded, a
\* delete failed and a later delete succeeded
C7_Witness ==
    \E c \in Slots :
        LET r == cyc[c]
        IN  /\ Completed(r) /\ r.alone
            /\ \E i, j \in Writes(r) :
                   /\ i < j
                   /\ r.calls[i].op = "POST" /\ ~r.calls[i].ok
                   /\ r.calls[j].op = "POST" /\ r.calls[j].ok
            /\ \E i, j \in Writes(r) :
                   /\ i < j
                   /\ r.calls[i].op = "DELETE" /\ ~r.calls[i].ok
                   /\ r.calls[j].op = "DELETE" /\ r.calls[j].ok

\* the cycle has built its desired mapping
Built(r) ==
    \/ r.pc \in {"fetch", "adds", "deletes"}
    \/ r.status \in {"changes", "nochanges", "skipped_fetch"}

\* the RouteName of a manual entry for one suffix, as the specification words it
ManualName(slug, suffix) ==
    IF \E x \in 1..Len(suffix) : suffix[x] = "." THEN slug ELSE slug \o <<".">> \o suffix

\* entry i of the configuration produces the RouteName n
ManualProduces(config, i, n) ==
    LET e == config.manual[i]
        l == ManualSuffixes(e, config)
    IN  \E k \in 1..Len(l) : ManualName(e.slug, l[k]) = n

\* the discovered routes produce the RouteName n
DockerProduces(r, n) ==
    \E k \in 1..Len(r.dockerRoutes), x \in 1..Len(r.config.default_domain_suffix) :
        r.dockerRoutes[k][1] \o <<".">> \o r.config.default_domain_suffix[x] = n

\* C9: the desired mapping has one backend per RouteName, and a RouteName
\* that a manual entry and a discovered container both produce has the
\* host:port of the manual entry (of the last such entry).
C9_ManualPrecedence ==
    \A c \in Slots :
        LET r == cyc[c]
            m == r.config.manual
        IN  Built(r) =>
              /\ \A i, j \in 1..Len(r.desired) :
                    r.desired[i][1] = r.desired[j][1] => i = j
              /\ \A n \in MapKeys(r.desired), i \in 1..Len(m) :
                    (/\ DockerProduces(r, n)
                     /\ ManualProduces(r.config, i, n)
                     /\ \A j \in (i + 1)..Len(m) : ~ManualProduces(r.config, j, n)) =>
                       MapVal(r.desired, n) = m[i].host \o <<":">> \o NumStr(m[i].port)

\* a RouteName produced by a container and by a manual entry, with
\* different backends
C9_Witness ==
    \E c \in Slots :
        LET r == cyc[c]
        IN  /\ Built(r)
            /\ \E n \in MapKeys(r.desired), i \in 1..Len(r.config.manual),
                  k \in 1..Len(r.dockerRoutes) :
                   /\ DockerProduces(r, n)
                   /\ ManualProduces(r.config, i, n)
                   /\ r.dockerRoutes[k][1] \o <<".">> \o r.config.default_domain_suffix[1] = n
                   /\ r.dockerRoutes[k][2] # MapVal(r.desired, n)

\* C10: for every suffix of a manual entry's suffix list the desired mapping
\* has the bare slug (suffix with a dot) or slug.suffix (suffix without),
\* mapped to the entry's host:port unless a later entry produces that name.
C10_PerSuffixRule ==
    \A c \in Slots :
        LET r == cyc[c]
            m == r.config.manual
        IN  Built(r) =>
              \A i \in 1..Len(m) :
                  LET l == ManualSuffixes(m[i], r.config)
                  IN  \A k \in 1..Len(l) :
                          LET n == ManualName(m[i].slug, l[k])
                          IN  /\ MapHas(r.desired, n)
                              /\ (\A j \in (i + 1)..Len(m) : ~ManualProduces(r.config, j, n)) =>
                                    MapVal(r.desired, n) =
                                        m[i].host \o <<":">> \o NumStr(m[i].port)

\* an entry whose list mixes a suffix with a dot and one without: the
\* desired mapping has its bare slug and its slug.suffix
C10_Witness ==
    \E c \in Slots :
        LET r == cyc[c]
            m == r.config.manual
        IN  /\ Built(r)
            /\ Len(m) = 1
            /\ ManualSuffixes(m[1], r.config) = <<SufM, SufMT>>
            /\ MapHas(r.desired, m[1].slug)
            /\ MapHas(r.desired, m[1].slug \o <<".">> \o SufM)
            /\ MapVal(r.desired, m[1].slug) = MapVal(r.desired, m[1].slug \o <<".">> \o SufM)

\* the inputs have stopped changing, the calls have stopped failing, and the
\* configuration is one a cycle can build a desired mapping from
Stable ==
    /\ changesLeft = 0
    /\ failsLeft = 0
    /\ ~IsNull(loadConfig(configFile))
    /\ ~BuildThrows(configFile, getDockerRoutes(TRUE, containers))

\* the router's table is the desired mapping of the present inputs
Converged ==
    \E dockerRoutes \in {getDockerRoutes(TRUE, containers)} :
        \E desired \in {DesiredRoutes(configFile, dockerRoutes)} :
            router = MapFun(desired)

\* C8: if from some point on the inputs no longer change and the calls
\* succeed, and the interval timer keeps firing, then from some point on the
\* router's table is the desired mapping, whatever calls failed before and
\* however the cycles overlapped.
C8_SelfHealing ==
    (<>[]Stable /\ []<><<TimerTick>>_vars) => <>[]Converged

\* the table has converged after a call had failed, the inputs had changed
\* and cycles had overlapped
C8_Witness ==
    /\ Stable
    /\ Converged
    /\ router # EmptyTable
    /\ MaxChanges > 0
    /\ MaxFails > 0
    /\ mainPc = "serving"
    /\ \E c \in Slots :
           /\ cyc[c].trigger = "timer"
           /\ Completed(cyc[c])
           /\ ~cyc[c].alone
           /\ cyc[c].status = "changes"

\* the containers present give no route: none has both a slug label and a
\* published first port
NoDiscovered == \A i \in 1..Len(containers) :
                    containers[i].label = <<>> \/ ~HasPublicPort(containers[i])

\* C11 (as stated): a cycle that ran alone against an empty table, with no
\* discovered container and manual entries that all lack override_suffix,
\* issues an add/update slug.suffix -> host:port for every entry and every
\* suffix of default_domain_suffix, with or without a dot in the suffix, and
\* no other call.
C11_ManualDefaultSuffix ==
    \A c \in Slots :
        LET r == cyc[c]
            m == r.config.manual
            l == r.config.default_domain_suffix
        IN  (/\ Completed(r) /\ r.alone
             /\ r.current = EmptyTable
             /\ NoDiscovered
             /\ \A i \in 1..Len(m) : ~m[i].has_override) =>
              /\ \A i \in 1..Len(m), k \in 1..Len(l) :
                    \E x \in Posts(r, m[i].slug \o <<".">> \o l[k]) :
                        r.calls[x].backend = m[i].host \o <<":">> \o NumStr(m[i].port)
              /\ \A x \in Writes(r) :
                    /\ r.calls[x].op = "POST"
                    /\ \E i \in 1..Len(m), k \in 1..Len(l) :
                           r.calls[x].name = m[i].slug \o <<".">> \o l[k]

\* position i of the label starts a slug and position j ends it: the slug
\* has no comma and no blank at either end, and only blanks lie between it
\* and the commas (or the ends of the label) around it
SlugAt(label, i, j) ==
    /\ i <= j
    /\ \A x \in i..j : label[x] # ","
    /\ label[i] # " " /\ label[j] # " "
    /\ \E a \in 0..(i - 1) :
           /\ a = 0 \/ label[a] = ","
           /\ \A x \in (a + 1)..(i - 1) : label[x] = " "
    /\ \E b \in (j + 1)..(Len(label) + 1) :
           /\ b = Len(label) + 1 \/ label[b] = ","
           /\ \A x \in (j + 1)..(b - 1) : label[x] = " "

\* the slugs a label carries
LabelSlugs(label) ==
    {SubSeq(label, q[1], q[2]) : q \in
        {p \in (1..Len(label)) \X (1..Len(label)) : SlugAt(label, p[1], p[2])}}

\* the containers that give routes: a slug label and a published first port
Publishing == {i \in 1..Len(containers) :
                  /\ containers[i].label # <<>>
                  /\ Len(containers[i].ports) > 0
                  /\ containers[i].ports[1] > 0}

\* the RouteNames of container i under the configuration of the cycle r
ContainerNames(r, i) ==
    {u \o <<".">> \o r.config.default_domain_suffix[k] :
        u \in LabelSlugs(containers[i].label),
        k \in 1..Len(r.config.default_domain_suffix)}

\* <fixed host IP>:p for container i
ContainerBackend(i) == DOCKER_HOST_IP \o <<":">> \o NumStr(containers[i].ports[1])

\* the RouteName n is taken over: a manual entry produces it, or a later
\* container carries a slug that gives it
Replaced(r, i, n) ==
    \/ \E e \in 1..Len(r.config.manual) : ManualProduces(r.config, e, n)
    \/ \E j \in Publishing : j > i /\ n \in ContainerNames(r, j)

WellFormed(config) ==
    /\ config.kind = "object"
    /\ config.has_manual
    /\ config.has_default

\* some manual entry of the configuration produces the RouteName n
ManualRoute(config, n) == \E i \in 1..Len(config.manual) : ManualProduces(config, i, n)

\* C13: a cycle in which the listing of the containers failed is not
\* skipped: it has no discovered route, its desired mapping holds exactly
\* the names of the manual entries with their host:port, it fetches the
\* router's table, and (running alone) it issues the add/update of every
\* manual route the table lacks and the delete of every name of the table
\* that is no manual route.
C13_DiscoveryFailure ==
    \A c \in Slots :
        LET r == cyc[c]
            m == r.config.manual
        IN  (~r.listOk /\ WellFormed(r.config)) =>
              /\ Built(r)
              /\ r.dockerRoutes = <<>>
              /\ \A n \in MapKeys(r.desired) : ManualRoute(r.config, n)
              /\ \A i \in 1..Len(m), n \in MapKeys(r.desired) :
                    (/\ ManualProduces(r.config, i, n)
                     /\ \A j \in (i + 1)..Len(m) : ~ManualProduces(r.config, j, n)) =>
                       MapVal(r.desired, n) = m[i].host \o <<":">> \o NumStr(m[i].port)
              /\ \A i \in 1..Len(m) :
                    \A k \in 1..Len(ManualSuffixes(m[i], r.config)) :
                        MapHas(r.desired,
                               ManualName(m[i].slug, ManualSuffixes(m[i], r.config)[k]))
              /\ r.pc = "done" => (r.calls # <<>> /\ r.calls[1].op = "GET")
              /\ (r.pc = "done" /\ r.fetched /\ r.alone) =>
                    /\ Completed(r)
                    /\ \A n \in MapKeys(r.desired) :
                          (n \notin DOMAIN r.current
                              \/ r.current[n] # MapVal(r.desired, n)) => Posts(r, n) # {}
                    /\ \A n \in DOMAIN r.current :
                          ~ManualRoute(r.config, n) => Deletes(r, n) # {}

\* the listing failed while a container with a slug and a port was running:
\* the cycle added a manual route and deleted another name
C13_Witness ==
    \E c \in Slots :
        LET r == cyc[c]
        IN  /\ ~r.listOk /\ WellFormed(r.config)
            /\ Publishing # {}
            /\ Completed(r) /\ r.alone
            /\ \E x, y \in Writes(r) :
                   /\ r.calls[x].op = "POST" /\ r.calls[x].ok
                   /\ r.calls[y].op = "DELETE" /\ r.calls[y].ok

\* C14 (as stated): one cycle is started at startup, and once it has ended,
\* whatever its outcome and that of later cycles, a timer tick starts a new
\* cycle and so does every pending change notification, whether or not a
\* cycle is in progress (a slot of the model being free).
C14_SchedulerRuns ==
    /\ mainPc = "initial" =>
           \E c \in Slots : cyc[c].trigger = "startup" /\ Active(c)
    /\ (mainPc # "initial" /\ FreeSlots # {}) =>
           /\ ENABLED TimerTick
           /\ watchEvents > 0 => ENABLED WatchCallback

\* C15 (as stated): every cycle that has ended has one of the statuses
\* changes applied, no changes needed, skipped, and the process is running,
\* with its watcher and timer once the startup cycle has ended.
C15_FailuresContained ==
    /\ \A c \in Slots :
           cyc[c].pc = "done" =>
               cyc[c].status \in {"changes", "nochanges", "skipped_config", "skipped_fetch"}
    /\ Alive
    /\ (\A c \in Slots : cyc[c].trigger # "startup" \/ ~Active(c)) => mainPc = "serving"

\* the suffix list of a manual entry as the specification words it: its
\* override_suffix when present and not empty, else default_domain_suffix
ApplicableSuffixes(entry, config) ==
    IF entry.has_override /\ entry.override_suffix # <<>>
    THEN entry.override_suffix
    ELSE config.default_domain_suffix

\* C16 (as stated): the desired mapping has, for every manual entry, one
\* route per suffix of its override_suffix when that list is present and
\* not empty, and one per suffix of default_domain_suffix otherwise, also
\* when override_suffix is present and empty.
C16_EmptyOverrideFallsBack ==
    \A c \in Slots :
        LET r == cyc[c]
            m == r.config.manual
        IN  (Built(r) /\ r.config.has_default) =>
              \A i \in 1..Len(m) :
                  \A k \in 1..Len(ApplicableSuffixes(m[i], r.config)) :
                      MapHas(r.desired,
                             ManualName(m[i].slug, ApplicableSuffixes(m[i], r.config)[k]))

\* C17: a step adds at most one call to the log of a cycle, the cycle then
\* waiting for no other call; an add/update is never issued once the cycle
\* has issued a delete, and the first delete is issued only when no
\* add/update is left to issue; all of them come after the fetch.
C17_AddsBeforeDeletes ==
    [][\A c \in Slots :
          (cyc'[c].calls # cyc[c].calls /\ cyc'[c].calls # <<>>) =>
             \E call \in {cyc'[c].calls[Len(cyc'[c].calls)]} :
                 /\ cyc'[c].calls = Append(cyc[c].calls, call)
                 /\ call.op = "GET" => cyc[c].calls = <<>>
                 /\ call.op \in {"POST", "DELETE"} =>
                        /\ cyc[c].calls # <<>>
                        /\ cyc[c].calls[1].op = "GET"
                 /\ call.op = "POST" => Deletes(cyc[c], call.name) = {}
                                          /\ \A i \in Writes(cyc[c]) :
                                                 cyc[c].calls[i].op = "POST"
                 /\ call.op = "DELETE" =>
                        \A n \in MapKeys(cyc[c].desired) :
                            NeedsUpdate(cyc[c].current, n, MapVal(cyc[c].desired, n)) =>
                                Posts(cyc[c], n) # {}]_vars

\* a cycle issued two add/updates, the first of which failed, and then a
\* delete, while another cycle was in progress
C17_Witness ==
    \E c \in Slots :
        LET r == cyc[c]
        IN  /\ Len(r.calls) >= 4
            /\ r.calls[2].op = "POST" /\ ~r.calls[2].ok
            /\ r.calls[3].op = "POST"
            /\ r.calls[Len(r.calls)].op = "DELETE"
            /\ \E d \in Slots : d # c /\ Active(d)

\* no cycle has thrown
NoneThrew == \A c \in Slots : cyc[c].status # "threw"

\* C18 (as stated): whichever call hangs, that of the startup cycle
\* included, timer ticks go on starting cycles (in runs where no cycle
\* throws).
C18_HangContained ==
    []NoneThrew => []<><<TimerTick>>_vars

\* C19: a cycle that ran to its end reports changes applied exactly when it
\* issued an add/update or a delete, whatever the answers were, and no
\* changes detected exactly when it issued none.
C19_StatusFromCalls ==
    \A c \in Slots :
        LET r == cyc[c]
        IN  Completed(r) =>
              /\ r.status = "changes" <=> Writes(r) # {}
              /\ r.status = "nochanges" <=> Writes(r) = {}

\* a cycle that reports changes applied although its add/update and its
\* delete both failed and the router's table is as it was
C19_Witness ==
    \E c \in Slots :
        LET r == cyc[c]
        IN  /\ Completed(r) /\ r.alone
            /\ r.status = "changes"
            /\ \A x \in Writes(r) : ~r.calls[x].ok
            /\ \E x, y \in Writes(r) : r.calls[x].op = "POST" /\ r.calls[y].op = "DELETE"
            /\ r.endTable = r.current
            /\ r.endTable # MapFun(r.desired)

\* C20: the name slug.suffix of a discovered container is in the desired
\* mapping whether or not the suffix has a dot, and it keeps the
\* container's backend exactly when no manual entry produces that very
\* name (by slug.suffix for a suffix without a dot, by its bare slug for a
\* suffix with one); so a manual entry with the container's slug and a
\* default suffix with a dot leaves the container's route and adds the bare
\* slug beside it.
C20_DotRuleManualOnly ==
    \A c \in Slots :
        LET r == cyc[c]
            m == r.config.manual
            l == r.config.default_domain_suffix
        IN  (Built(r) /\ r.listOk) =>
              \A i \in Publishing : \A n \in ContainerNames(r, i) :
                  /\ MapHas(r.desired, n)
                  /\ (\A j \in Publishing : j > i => n \notin ContainerNames(r, j)) =>
                        /\ MapVal(r.desired, n) = ContainerBackend(i)
                               <=> ~ManualRoute(r.config, n)
                        /\ \A e \in 1..Len(m), k \in 1..Len(l) :
                              (/\ ~m[e].has_override
                               /\ n = m[e].slug \o <<".">> \o l[k]
                               /\ Includes(l[k], ".")
                               /\ \A f \in 1..Len(m) : f # e =>
                                      ~ManualProduces(r.config, f, n)
                                      /\ ~ManualProduces(r.config, f, m[e].slug)) =>
                                 /\ MapVal(r.desired, n) = ContainerBackend(i)
                                 /\ MapHas(r.desired, m[e].slug)
                                 /\ MapVal(r.desired, m[e].slug) =
                                        m[e].host \o <<":">> \o NumStr(m[e].port)

\* a container and a manual entry with the same slug under a default suffix
\* with a dot: the two routes coexist
C20_Witness ==
    \E c \in Slots :
        LET r == cyc[c]
        IN  /\ Built(r) /\ r.listOk
            /\ r.config.default_domain_suffix = <<SufMT>>
            /\ r.config.manual = <<ManualEntry(SlugA, HostH, 1)>>
            /\ \E i \in Publishing : SlugA \in LabelSlugs(containers[i].label)
            /\ MapHas(r.desired, SlugA)
            /\ MapHas(r.desired, SlugA \o <<".">> \o SufMT)
            /\ MapVal(r.desired, SlugA) = BackendStr(HostH, 1)
            /\ MapVal(r.desired, SlugA \o <<".">> \o SufMT) # BackendStr(HostH, 1)

====
